---- MODULE Spec2Model ----
(***************************************************************************)
(* Model of the abuse-scanner pipeline: fetcher, parser, blocker,          *)
(* finalizer and reporter (build and file loops) of several hosts working  *)
(* on one shared store (collections emails, ncmec_reports, locks).         *)
(*                                                                         *)
(* Every host runs one scheduling unit per stage.  A unit is idle between  *)
(* ticks; a tick queries the store and keeps the returned documents as a   *)
(* private batch (the slice the Go loop ranges over), then handles the     *)
(* batch front to back.  The steps of one handler are split where it waits *)
(* on the store lock or on an external service, so that other units can    *)
(* run in between.                                                         *)
(***************************************************************************)
EXTENDS Integers, Sequences, FiniteSets, TLC

\* ------------------------------------------------------------------------
\* Bounds of the model
\* ------------------------------------------------------------------------

\* number of lock records whose TTL may run out while the holder still works
MaxExpiries == 1

\* number of ticks a fetcher runs in SpecFetch
MaxFetchTicks == 3

\* number of crashes, failed store updates and outages in a run of SpecFaults
MaxFaults == 1

\* longest list of skylinks a body of SpecBlock spells out
MaxLinks == 2

\* ------------------------------------------------------------------------
\* Program constants
\* ------------------------------------------------------------------------

Hosts == {"h1", "h2"}

Stages == {"fetcher", "parser", "blocker", "finalizer", "builder", "filer"}

Workers == Hosts \X Stages

\* the units that take steps in a run: the whole pipeline of host h1 and,
\* racing with it, one unit of host h2 (the other units of h2 do not get
\* to run)
Deployments == {(({"h1"} \X Stages) \cup {u}) : u \in {"h2"} \X Stages}

HostOf(w) == w[1]

StageOf(w) == w[2]

scannerEmailAddress == "abuse-scanner@siasky.net"

AbuseStatusBlocked == "BLOCKED"

AbuseStatusNotBlocked == "NOT BLOCKED"

AbuseDefaultTag == "abusive"

anonUser == "anon"

MailboxName == "INBOX"

UidValidity == 1

\* ------------------------------------------------------------------------
\* Mailbox contents (the input of the pipeline)
\* ------------------------------------------------------------------------

\* a body is abstracted to what the parser extracts from it: the skylinks it
\* spells out, the skylinks behind its skytransfer URLs, its tag words and
\* whether it is a readable MIME message
NilBody == [nil |-> TRUE, mime |-> FALSE, links |-> <<>>, transfer |-> <<>>, tags |-> {}]

CsamBody == [nil |-> FALSE, mime |-> TRUE, links |-> <<"A", "A">>, transfer |-> <<>>, tags |-> {"csam"}]

TransferBody == [nil |-> FALSE, mime |-> TRUE, links |-> <<"A">>, transfer |-> <<"C">>, tags |-> {}]

CsamMsg == [from |-> <<"reporter@example.com">>, hasBody |-> TRUE, body |-> CsamBody]

TransferMsg == [from |-> <<"reporter@example.com">>, hasBody |-> TRUE, body |-> TransferBody]

ScannerMsg == [from |-> <<scannerEmailAddress>>, hasBody |-> TRUE, body |-> CsamBody]

BodylessMsg == [from |-> <<"reporter@example.com">>, hasBody |-> FALSE, body |-> NilBody]

\* the mailboxes the pipeline is run against; message i has server uid i
Mailboxes == {<<CsamMsg, ScannerMsg>>, <<TransferMsg, BodylessMsg>>}

\* uploader-info service: the subjects that uploaded a skylink, none when
\* the service has no record of it
UploadInfoGET(skylink) == IF skylink = "A" THEN {"sub1"} ELSE {}

\* the users a skylink is grouped under: its uploaders, anonUser when the
\* service knows none
UsersOf(skylink) == IF UploadInfoGET(skylink) = {} THEN {anonUser} ELSE UploadInfoGET(skylink)

VARIABLES
    units,      \* the scheduling units that run
    mailbox,    \* the messages on the IMAP server, by server uid
    emails,     \* collection emails, in insertion order
    reports,    \* collection ncmec_reports, in insertion order
    locks,      \* collection locks
    pc,         \* position of every scheduling unit
    batch,      \* documents a unit still has to handle in this tick
    expiries,   \* number of lock records dropped after their TTL
    ncmecNext,  \* next report id the authority hands out
    fetchTicks, \* fetch ticks a unit has run (counted in SpecFetch only)
    submitted,  \* per report id, the /submit requests the authority accepted
    appended,   \* per email uid, the summary replies appended to the mailbox
    smtpTried,  \* per email uid, the SMTP sends of the automated reply
    smtpFailed, \* the email uids for which an SMTP send failed
    faults,     \* crashes, store failures and outages so far (SpecFaults only)
    ncmecUp,    \* whether the authority answers its status check with OK
    answered,   \* per email uid, the answers to the block requests of the last blockReport
    unseen,     \* the seen flags cleared: pairs of a fetcher and a server uid
    sup,        \* position of the supervisor (main) of the deployment
    finished    \* the report ids for which the authority answered /finish with OK

vars == <<units, mailbox, emails, reports, locks, pc, batch, expiries, ncmecNext, fetchTicks,
         submitted, appended, smtpTried, smtpFailed, faults, ncmecUp, answered,
         unseen, sup, finished>>

\* the client of the store is connected: main disconnects it at shutdown,
\* and every operation on the store returns an error from then on
StoreOpen == sup \in {"running", "cancelled"}

\* ------------------------------------------------------------------------
\* Sequence helpers
\* ------------------------------------------------------------------------

Range(s) == {s[i] : i \in 1..Len(s)}

\* counters of the requests an outside service received, by key
Count(f, k) == IF k \in DOMAIN f THEN f[k] ELSE 0

Bump(f, k) == [x \in DOMAIN f \cup {k} |-> IF x = k THEN Count(f, k) + 1 ELSE f[x]]

RECURSIVE Dedupe(_)
Dedupe(s) ==
    IF s = <<>> THEN <<>>
    ELSE LET init == Dedupe(SubSeq(s, 1, Len(s) - 1))
             last == s[Len(s)]
         IN IF last \in Range(init) THEN init ELSE Append(init, last)

\* ------------------------------------------------------------------------
\* Store: collection emails
\* ------------------------------------------------------------------------

buildMessageUID(name, validity, msgUid) == <<name, validity, msgUid>>

\* FindOne: the first document with the uid, or none
HasEmail(uid) == \E i \in 1..Len(emails) : emails[i].uid = uid

IndexOf(uid) == CHOOSE i \in 1..Len(emails) : emails[i].uid = uid /\ \A j \in 1..(i - 1) : emails[j].uid # uid

FindOne(uid) == emails[IndexOf(uid)]

FindUnparsed == SelectSeq(emails, LAMBDA e : ~e.parsed /\ ~e.blocked /\ ~e.finalized)

\* a query for the emails that are not blocked, parsed or not
FindUnblocked_unparsed ==
    SelectSeq(emails, LAMBDA e : ~e.blocked /\ ~e.finalized)

FindUnblocked == SelectSeq(emails, LAMBDA e : e.parsed /\ ~e.blocked /\ ~e.finalized)

\* a query for the emails that are not finalized, whatever their other flags
FindUnfinalized_unfiltered(name) ==
    SelectSeq(emails, LAMBDA e : e.uid[1] = name /\ ~e.finalized)

FindUnfinalized(name) == SelectSeq(emails, LAMBDA e : e.uid[1] = name /\ e.parsed /\ e.blocked /\ ~e.finalized)

FindUnreported == SelectSeq(emails, LAMBDA e : e.parsed /\ ~e.reported /\ "csam" \in e.parse_result.tags)

\* unique index on email_uid: a second document with the uid is rejected
\* a collection without the unique index
UniqueIndexAllows_none(uid) == TRUE

UniqueIndexAllows(uid) == ~HasEmail(uid)

\* an update that replaces the document instead of setting the fields
UpdateNoLock_replace(uid, fields) ==
    [emails EXCEPT ![IndexOf(uid)] =
        [f \in DOMAIN @ |-> IF f \in DOMAIN fields THEN fields[f]
                            ELSE IF f \in {"uid", "body", "skip", "parse_result", "block_result"} THEN @[f]
                            ELSE FALSE]]

\* UpdateOne with filter email_uid: $set the given fields of the first match
UpdateNoLock(uid, fields) ==
    IF StoreOpen /\ HasEmail(uid)
    THEN [emails EXCEPT ![IndexOf(uid)] = [f \in DOMAIN @ |-> IF f \in DOMAIN fields THEN fields[f] ELSE @[f]]]
    ELSE emails

\* ------------------------------------------------------------------------
\* Store: collection locks (lock.Client)
\* ------------------------------------------------------------------------

\* the resource every abuseLock is taken on
LockedResource == "emails"

\* XLock succeeds when the resource has no lock record
CanLock == StoreOpen /\ ~\E l \in locks : l.resource = LockedResource

XLock(lockID, host) == locks \cup {[resource |-> LockedResource, lockId |-> lockID, host |-> host]}

\* Unlock removes every lock record with the lock id
Unlock(lockID) == IF StoreOpen THEN {l \in locks : l.lockId # lockID} ELSE locks

\* ------------------------------------------------------------------------
\* Initial state
\* ------------------------------------------------------------------------

\* the store, the services and the units when the processes start
InitRun ==
    /\ reports = <<>>
    /\ locks = {}
    /\ pc = [w \in Workers |-> "idle"]
    /\ batch = [w \in Workers |-> <<>>]
    /\ expiries = 0
    /\ ncmecNext = 1
    /\ fetchTicks = [w \in Workers |-> 0]
    /\ submitted = <<>>
    /\ appended = <<>>
    /\ smtpTried = <<>>
    /\ smtpFailed = {}
    /\ faults = 0
    /\ ncmecUp = TRUE
    /\ answered = <<>>
    /\ unseen = {}
    /\ sup = "running"
    /\ finished = {}

InitStore ==
    /\ emails = <<>>
    /\ InitRun

Init ==
    /\ units \in Deployments
    /\ mailbox \in Mailboxes
    /\ InitStore

\* the unit is done with the head of its batch
Advance(w) ==
    /\ batch' = [batch EXCEPT ![w] = Tail(@)]
    /\ pc' = [pc EXCEPT ![w] = IF Tail(batch[w]) = <<>> THEN "idle" ELSE "next"]

\* the fields of a document that the handlers of a stage read
FieldsRead(stage) ==
    CASE stage = "parser" -> {"uid", "body"}
      [] stage = "blocker" -> {"uid", "parse_result"}
      [] stage = "finalizer" -> {"uid", "parse_result", "block_result"}
      [] stage = "builder" -> {"uid", "parse_result"}
      [] stage = "filer" -> {"id", "email_id", "user", "skylinks", "report_id"}

\* the documents of a query result, as the stage uses them
Snapshot(stage, docs) ==
    [i \in 1..Len(docs) |-> [f \in FieldsRead(stage) |-> docs[i][f]]]

\* a tick whose query returns the documents docs; the tick returns when
\* the query fails
StartBatch(w, docs) ==
    LET found == IF StoreOpen THEN docs ELSE <<>>
    IN /\ batch' = [batch EXCEPT ![w] = found]
       /\ pc' = [pc EXCEPT ![w] = IF found = <<>> THEN "idle" ELSE "next"]

\* ------------------------------------------------------------------------
\* Fetcher
\* ------------------------------------------------------------------------

isFromAbuseScanner(msg) == Len(msg.from) = 1 /\ msg.from[1] = scannerEmailAddress

hasBody(msg) == msg.hasBody

getMessageIds == [i \in 1..Len(mailbox) |-> i]

getMessagesToFetch(msgs) == SelectSeq(msgs, LAMBDA m : ~HasEmail(buildMessageUID(MailboxName, UidValidity, m)))

\* the document persistMessage inserts
NewEmail(uid, body) ==
    [uid |-> uid, body |-> body, skip |-> FALSE,
     parsed |-> FALSE, blocked |-> FALSE, finalized |-> FALSE, reported |-> FALSE,
     parse_result |-> [skylinks |-> <<>>, tags |-> {}],
     block_result |-> <<>>]

\* a skip document that is left for the finalizer
SkipEmail_unfinalized(uid) ==
    [uid |-> uid, body |-> NilBody, skip |-> TRUE,
     parsed |-> TRUE, blocked |-> TRUE, finalized |-> FALSE, reported |-> FALSE,
     parse_result |-> [skylinks |-> <<>>, tags |-> {}],
     block_result |-> <<>>]

\* the document persistSkipMessage inserts
SkipEmail(uid) ==
    [uid |-> uid, body |-> NilBody, skip |-> TRUE,
     parsed |-> TRUE, blocked |-> TRUE, finalized |-> TRUE, reported |-> FALSE,
     parse_result |-> [skylinks |-> <<>>, tags |-> {}],
     block_result |-> <<>>]

\* InsertOne: lock the uid, insert, unlock; fails when the lock is busy or
\* the unique index rejects the document
InsertOne(email) ==
    IF CanLock /\ UniqueIndexAllows(email.uid) THEN Append(emails, email) ELSE emails

\* Exists: lock the uid, FindOne, unlock; an error when the lock is busy
ExistsFails == ~CanLock

\* fetchMessages up to the loop over the missing messages
FetchMissing(w) ==
    /\ StageOf(w) = "fetcher"
    /\ pc[w] = "idle"
    /\ Len(mailbox) # 0
    /\ StartBatch(w, getMessagesToFetch(getMessageIds))
    /\ UNCHANGED <<units, mailbox, finished, sup, unseen, answered, emails, reports, locks, expiries, ncmecNext>>
    /\ UNCHANGED <<submitted, appended, smtpTried, smtpFailed, faults, ncmecUp>>

FetchTick(w) ==
    /\ FetchMissing(w)
    /\ UNCHANGED fetchTicks

\* the same tick, counted
CountedFetchTick(w) ==
    /\ fetchTicks[w] < MaxFetchTicks
    /\ FetchMissing(w)
    /\ fetchTicks' = [fetchTicks EXCEPT ![w] = @ + 1]

\* fetchMessagesByUid for a message that is persisted as skipped
FetchSkip(w) ==
    /\ StageOf(w) = "fetcher"
    /\ pc[w] = "next"
    /\ LET msgUid == Head(batch[w])
           msg == mailbox[msgUid]
           uid == buildMessageUID(MailboxName, UidValidity, msgUid)
       IN /\ isFromAbuseScanner(msg) \/ ~hasBody(msg)
          /\ emails' = IF ExistsFails \/ HasEmail(uid) THEN emails
                       ELSE InsertOne(SkipEmail(uid))
    /\ Advance(w)
    /\ UNCHANGED <<units, mailbox, finished, sup, unseen, answered, reports, locks, expiries, ncmecNext, fetchTicks, submitted, appended, smtpTried, smtpFailed, faults, ncmecUp>>

\* fetchMessagesByUid for a message that is persisted for the pipeline
FetchPersist(w) ==
    /\ StageOf(w) = "fetcher"
    /\ pc[w] = "next"
    /\ LET msgUid == Head(batch[w])
           msg == mailbox[msgUid]
           uid == buildMessageUID(MailboxName, UidValidity, msgUid)
       IN /\ ~isFromAbuseScanner(msg)
          /\ hasBody(msg)
          /\ emails' = InsertOne(NewEmail(uid, msg.body))
          /\ unseen' = unseen \cup {<<w, msgUid>>}
    /\ Advance(w)
    /\ UNCHANGED <<units, mailbox, finished, sup, answered, reports, locks, expiries, ncmecNext, fetchTicks, submitted, appended, smtpTried, smtpFailed, faults, ncmecUp>>

Fetcher(w) == FetchTick(w) \/ FetchSkip(w) \/ FetchPersist(w)

\* ------------------------------------------------------------------------
\* Locking of the document a unit works on
\* ------------------------------------------------------------------------

\* the lock id of the document at the head of the unit's batch: the email
\* uid (NewLock) or the hex id of the report (NewReportLock)
LockIdOf(w) == IF StageOf(w) = "filer" THEN Head(batch[w]).id ELSE Head(batch[w]).uid

\* abuseLock.Lock succeeded
Lock(w) ==
    /\ CanLock
    /\ locks' = XLock(LockIdOf(w), HostOf(w))
    /\ pc' = [pc EXCEPT ![w] = "locked"]
    /\ UNCHANGED batch

\* a handler that goes on with the record although the acquire failed
LockBusy_proceed(w) ==
    /\ ~CanLock
    /\ pc' = [pc EXCEPT ![w] = "locked"]
    /\ UNCHANGED batch
    /\ UNCHANGED locks

\* abuseLock.Lock failed: the handler returns "could not acquire lock"
LockBusy(w) ==
    /\ ~CanLock
    /\ Advance(w)
    /\ UNCHANGED locks

\* the deferred abuseLock.Unlock of every handler
Release(w) ==
    /\ StageOf(w) # "fetcher"
    /\ pc[w] = "unlock"
    /\ locks' = Unlock(LockIdOf(w))
    /\ Advance(w)
    /\ UNCHANGED <<units, mailbox, finished, sup, unseen, answered, emails, reports, expiries, ncmecNext, fetchTicks, submitted, appended, smtpTried, smtpFailed, faults, ncmecUp>>

\* the TTL (lockTTL seconds) of a lock record ran out while its holder was
\* still at work, and the lock store dropped the record
Expire ==
    /\ expiries < MaxExpiries
    /\ \E l \in locks : locks' = locks \ {l}
    /\ expiries' = expiries + 1
    /\ UNCHANGED <<units, mailbox, finished, sup, unseen, answered, emails, reports, pc, batch, ncmecNext, fetchTicks, submitted, appended, smtpTried, smtpFailed, faults, ncmecUp>>

\* ------------------------------------------------------------------------
\* Parser
\* ------------------------------------------------------------------------

\* a parser that takes every body for a readable MIME message
parseBody_lenient(body, dockerOk) ==
    [ok |-> TRUE,
     skylinks |-> Dedupe(body.links \o (IF body.transfer # <<>> /\ dockerOk THEN body.transfer ELSE <<>>)),
     tags |-> IF body.tags = {} THEN {AbuseDefaultTag} ELSE body.tags]

\* parseBody: dockerOk tells whether the cypress run that resolves the
\* skytransfer URLs of the body succeeded
parseBody(body, dockerOk) ==
    [ok |-> body.mime,
     skylinks |-> Dedupe(body.links \o (IF body.transfer # <<>> /\ dockerOk THEN body.transfer ELSE <<>>)),
     tags |-> IF body.tags = {} THEN {AbuseDefaultTag} ELSE body.tags]

buildAbuseReport(email, dockerOk) ==
    IF email.body.nil
    THEN [ok |-> FALSE, skylinks |-> <<>>, tags |-> {}]
    ELSE parseBody(email.body, dockerOk)

ParseTick(w) ==
    /\ StageOf(w) = "parser"
    /\ pc[w] = "idle"
    /\ StartBatch(w, Snapshot("parser", FindUnparsed))
    /\ UNCHANGED <<units, mailbox, finished, sup, unseen, answered, emails, reports, locks, expiries, ncmecNext, fetchTicks, submitted, appended, smtpTried, smtpFailed, faults, ncmecUp>>

ParseLock(w) ==
    /\ StageOf(w) = "parser"
    /\ pc[w] = "next"
    /\ Lock(w)
    /\ UNCHANGED <<units, mailbox, finished, sup, unseen, answered, emails, reports, expiries, ncmecNext, fetchTicks, submitted, appended, smtpTried, smtpFailed, faults, ncmecUp>>

ParseLockBusy(w) ==
    /\ StageOf(w) = "parser"
    /\ pc[w] = "next"
    /\ LockBusy(w)
    /\ UNCHANGED <<units, mailbox, finished, sup, unseen, answered, emails, reports, expiries, ncmecNext, fetchTicks, submitted, appended, smtpTried, smtpFailed, faults, ncmecUp>>

\* parseEmail after the lock: build the report, update the email
ParseEmail(w) ==
    /\ StageOf(w) = "parser"
    /\ pc[w] = "locked"
    /\ \E dockerOk \in BOOLEAN :
         LET email == Head(batch[w])
             report == buildAbuseReport(email, dockerOk)
         IN emails' = IF report.ok
                      THEN UpdateNoLock(email.uid,
                               [parsed |-> TRUE,
                                parse_result |-> [skylinks |-> report.skylinks, tags |-> report.tags]])
                      ELSE emails
    /\ pc' = [pc EXCEPT ![w] = "unlock"]
    /\ UNCHANGED <<units, mailbox, finished, sup, unseen, answered, reports, locks, batch, expiries, ncmecNext, fetchTicks, submitted, appended, smtpTried, smtpFailed, faults, ncmecUp>>

Parser(w) == ParseTick(w) \/ ParseLock(w) \/ ParseLockBusy(w) \/ ParseEmail(w)

\* ------------------------------------------------------------------------
\* Blocker
\* ------------------------------------------------------------------------

BuildError == -1

BlockOutcome_only200(status) ==
    IF status = 200 THEN AbuseStatusBlocked
    ELSE IF status = BuildError THEN "failed to build request"
    ELSE IF status = 0 THEN "failed to execute request"
    ELSE "failed to block skylink"

\* outcome string of one block request, by the HTTP status of the answer
\* (0: the request could not be executed, BuildError: it could not be built)
BlockOutcome(status) ==
    IF status \in {200, 204} THEN AbuseStatusBlocked
    ELSE IF status = BuildError THEN "failed to build request"
    ELSE IF status = 0 THEN "failed to execute request"
    ELSE "failed to block skylink"

BlockStatuses == {204, 500}

\* a blockReport that keeps the outcomes of the accepted requests only
blockReport_skipFailed(skylinks, statuses) ==
    SelectSeq([i \in 1..Len(skylinks) |-> BlockOutcome(statuses[i])], LAMBDA o : o = AbuseStatusBlocked)

\* blockReport: one outcome per skylink of the report
blockReport(skylinks, statuses) == [i \in 1..Len(skylinks) |-> BlockOutcome(statuses[i])]

BlockTick(w) ==
    /\ StageOf(w) = "blocker"
    /\ pc[w] = "idle"
    /\ StartBatch(w, Snapshot("blocker", FindUnblocked))
    /\ UNCHANGED <<units, mailbox, finished, sup, unseen, answered, emails, reports, locks, expiries, ncmecNext, fetchTicks, submitted, appended, smtpTried, smtpFailed, faults, ncmecUp>>

BlockLock(w) ==
    /\ StageOf(w) = "blocker"
    /\ pc[w] = "next"
    /\ Lock(w)
    /\ UNCHANGED <<units, mailbox, finished, sup, unseen, answered, emails, reports, expiries, ncmecNext, fetchTicks, submitted, appended, smtpTried, smtpFailed, faults, ncmecUp>>

BlockLockBusy(w) ==
    /\ StageOf(w) = "blocker"
    /\ pc[w] = "next"
    /\ LockBusy(w)
    /\ UNCHANGED <<units, mailbox, finished, sup, unseen, answered, emails, reports, expiries, ncmecNext, fetchTicks, submitted, appended, smtpTried, smtpFailed, faults, ncmecUp>>

\* blockEmail after the lock: block the skylinks, update the email; the
\* block service answers with one of statuses
BlockEmailAnswering(w, statuses) ==
    /\ StageOf(w) = "blocker"
    /\ pc[w] = "locked"
    /\ LET email == Head(batch[w])
           skylinks == email.parse_result.skylinks
       IN \E answers \in [1..Len(skylinks) -> statuses] :
            LET result == blockReport(skylinks, answers)
            IN /\ emails' = IF Len(result) # Len(skylinks) THEN emails
                            ELSE UpdateNoLock(email.uid, [blocked |-> TRUE, block_result |-> result])
               /\ answered' = [uid \in DOMAIN answered \cup {email.uid} |->
                                 IF uid = email.uid
                                 THEN [i \in 1..Len(skylinks) |-> [skylink |-> skylinks[i], status |-> answers[i]]]
                                 ELSE answered[uid]]
    /\ pc' = [pc EXCEPT ![w] = "unlock"]
    /\ UNCHANGED <<units, mailbox, finished, sup, unseen, reports, locks, batch, expiries, ncmecNext, fetchTicks, submitted, appended, smtpTried, smtpFailed, faults, ncmecUp>>

BlockEmail(w) == BlockEmailAnswering(w, BlockStatuses)

Blocker(w) == BlockTick(w) \/ BlockLock(w) \/ BlockLockBusy(w) \/ BlockEmail(w)

\* ------------------------------------------------------------------------
\* Finalizer
\* ------------------------------------------------------------------------

\* AbuseEmail.result: the skylinks that were blocked, and those that were not
result(email) ==
    LET n == Len(email.parse_result.skylinks)
    IN [blocked |-> {i \in 1..n : email.block_result[i] = AbuseStatusBlocked},
        unblocked |-> {i \in 1..n : email.block_result[i] # AbuseStatusBlocked}]

Success(email) == result(email).blocked # {} /\ result(email).unblocked = {}

FinalizeTick(w) ==
    /\ StageOf(w) = "finalizer"
    /\ pc[w] = "idle"
    /\ StartBatch(w, Snapshot("finalizer", FindUnfinalized(MailboxName)))
    /\ UNCHANGED <<units, mailbox, finished, sup, unseen, answered, emails, reports, locks, expiries, ncmecNext, fetchTicks, submitted, appended, smtpTried, smtpFailed, faults, ncmecUp>>

\* the sanity check finalizeEmail makes before it takes the lock
SanityCheck(email) == Len(email.block_result) = Len(email.parse_result.skylinks)

FinalizeMismatch(w) ==
    /\ StageOf(w) = "finalizer"
    /\ pc[w] = "next"
    /\ ~SanityCheck(Head(batch[w]))
    /\ Advance(w)
    /\ UNCHANGED <<units, mailbox, finished, sup, unseen, answered, emails, reports, locks, expiries, ncmecNext, fetchTicks, submitted, appended, smtpTried, smtpFailed, faults, ncmecUp>>

FinalizeLock(w) ==
    /\ StageOf(w) = "finalizer"
    /\ pc[w] = "next"
    /\ SanityCheck(Head(batch[w]))
    /\ Lock(w)
    /\ UNCHANGED <<units, mailbox, finished, sup, unseen, answered, emails, reports, expiries, ncmecNext, fetchTicks, submitted, appended, smtpTried, smtpFailed, faults, ncmecUp>>

FinalizeLockBusy(w) ==
    /\ StageOf(w) = "finalizer"
    /\ pc[w] = "next"
    /\ SanityCheck(Head(batch[w]))
    /\ LockBusy(w)
    /\ UNCHANGED <<units, mailbox, finished, sup, unseen, answered, emails, reports, expiries, ncmecNext, fetchTicks, submitted, appended, smtpTried, smtpFailed, faults, ncmecUp>>

\* a re-check that returns without the unlock when the email is finalized
FinalizeCheck_noUnlock(w) ==
    /\ StageOf(w) = "finalizer"
    /\ pc[w] = "locked"
    /\ IF FindOne(Head(batch[w]).uid).finalized
       THEN Advance(w)
       ELSE pc' = [pc EXCEPT ![w] = "work"] /\ UNCHANGED batch
    /\ UNCHANGED <<units, mailbox, finished, sup, unseen, answered, emails, reports, locks, expiries, ncmecNext, fetchTicks, submitted, appended, smtpTried, smtpFailed, faults, ncmecUp>>

\* under the lock: return when FindOne fails or another process finalized
\* the email
FinalizeCheck(w) ==
    /\ StageOf(w) = "finalizer"
    /\ pc[w] = "locked"
    /\ pc' = [pc EXCEPT ![w] = IF ~StoreOpen \/ FindOne(Head(batch[w]).uid).finalized THEN "unlock" ELSE "work"]
    /\ UNCHANGED <<units, mailbox, finished, sup, unseen, answered, emails, reports, locks, batch, expiries, ncmecNext, fetchTicks, submitted, appended, smtpTried, smtpFailed, faults, ncmecUp>>

\* what finalizeEmail sends before it updates the email: the summary, and
\* the automated reply when the email was handled successfully
SendReplies(w) ==
    LET email == Head(batch[w])
    IN /\ appended' = Bump(appended, email.uid)
       /\ smtpTried' = IF Success(email) THEN Bump(smtpTried, email.uid) ELSE smtpTried
       /\ \E smtpOk \in BOOLEAN :
             smtpFailed' = IF Success(email) /\ ~smtpOk THEN smtpFailed \cup {email.uid}
                           ELSE smtpFailed

\* sendAbuseReport succeeded: the summary is appended to the mailbox; the
\* automated reply is sent when the email was handled successfully, and a
\* failure to send it is only logged; the email is updated
FinalizeEmail(w) ==
    /\ StageOf(w) = "finalizer"
    /\ pc[w] = "work"
    /\ SendReplies(w)
    /\ emails' = UpdateNoLock(Head(batch[w]).uid, [finalized |-> TRUE])
    /\ pc' = [pc EXCEPT ![w] = "unlock"]
    /\ UNCHANGED <<units, mailbox, finished, sup, unseen, answered, reports, locks, batch, expiries, ncmecNext, fetchTicks, submitted, faults, ncmecUp>>

\* sendAbuseReport failed: the IMAP append returned an error
FinalizeSendFailed(w) ==
    /\ StageOf(w) = "finalizer"
    /\ pc[w] = "work"
    /\ pc' = [pc EXCEPT ![w] = "unlock"]
    /\ UNCHANGED <<units, mailbox, finished, sup, unseen, answered, emails, reports, locks, batch, expiries, ncmecNext, fetchTicks, submitted, appended, smtpTried, smtpFailed, faults, ncmecUp>>

Finalizer(w) ==
    \/ FinalizeTick(w) \/ FinalizeMismatch(w) \/ FinalizeLock(w) \/ FinalizeLockBusy(w)
    \/ FinalizeCheck(w) \/ FinalizeEmail(w) \/ FinalizeSendFailed(w)

\* ------------------------------------------------------------------------
\* Reporter, loop 1: build the reports of an email
\* ------------------------------------------------------------------------

\* buildReportsForEmailInner: the users the skylinks are grouped by
GroupedUsers(skylinks) == UNION {UsersOf(skylinks[i]) : i \in 1..Len(skylinks)}

UploadsOf(skylinks, user) == SelectSeq(skylinks, LAMBDA s : user \in UsersOf(s))

\* the orders in which a map over the users can be ranged
Orders(users) == {o \in [1..Cardinality(users) -> users] : Range(o) = users}

NewReport(n, email, user) ==
    [id |-> <<"oid", n>>, email_id |-> email.uid,
     user |-> user, skylinks |-> UploadsOf(email.parse_result.skylinks, user),
     filed |-> FALSE, filed_err |-> "", report_id |-> 0]

BuildTick(w) ==
    /\ StageOf(w) = "builder"
    /\ pc[w] = "idle"
    /\ StartBatch(w, Snapshot("builder", FindUnreported))
    /\ UNCHANGED <<units, mailbox, finished, sup, unseen, answered, emails, reports, locks, expiries, ncmecNext, fetchTicks, submitted, appended, smtpTried, smtpFailed, faults, ncmecUp>>

BuildLock(w) ==
    /\ StageOf(w) = "builder"
    /\ pc[w] = "next"
    /\ Lock(w)
    /\ UNCHANGED <<units, mailbox, finished, sup, unseen, answered, emails, reports, expiries, ncmecNext, fetchTicks, submitted, appended, smtpTried, smtpFailed, faults, ncmecUp>>

BuildLockBusy(w) ==
    /\ StageOf(w) = "builder"
    /\ pc[w] = "next"
    /\ LockBusy(w)
    /\ UNCHANGED <<units, mailbox, finished, sup, unseen, answered, emails, reports, expiries, ncmecNext, fetchTicks, submitted, appended, smtpTried, smtpFailed, faults, ncmecUp>>

\* under the lock: return when FindOne fails or another process reported
\* the email
BuildCheck(w) ==
    /\ StageOf(w) = "builder"
    /\ pc[w] = "locked"
    /\ pc' = [pc EXCEPT ![w] = IF ~StoreOpen \/ FindOne(Head(batch[w]).uid).reported THEN "unlock" ELSE "work"]
    /\ UNCHANGED <<units, mailbox, finished, sup, unseen, answered, emails, reports, locks, batch, expiries, ncmecNext, fetchTicks, submitted, appended, smtpTried, smtpFailed, faults, ncmecUp>>

\* the loop over the reports that were built: InsertReport of one report
\* per user of users, in the order the map is ranged
InsertReports(w, users) ==
    LET email == Head(batch[w])
    IN \E order \in Orders(users) :
          reports' = IF StoreOpen
                     THEN reports \o [i \in 1..Len(order) |-> NewReport(Len(reports) + i, email, order[i])]
                     ELSE reports

\* the reports were built: insert one per user, update the email
BuildReports(w) ==
    /\ StageOf(w) = "builder"
    /\ pc[w] = "work"
    /\ InsertReports(w, GroupedUsers(Head(batch[w]).parse_result.skylinks))
    /\ emails' = UpdateNoLock(Head(batch[w]).uid, [reported |-> TRUE])
    /\ pc' = [pc EXCEPT ![w] = "unlock"]
    /\ UNCHANGED <<units, mailbox, finished, sup, unseen, answered, locks, batch, expiries, ncmecNext, fetchTicks, submitted, appended, smtpTried, smtpFailed, faults, ncmecUp>>

\* the uploader-info service failed: "could not build reports"
BuildFailed(w) ==
    /\ StageOf(w) = "builder"
    /\ pc[w] = "work"
    /\ Head(batch[w]).parse_result.skylinks # <<>>
    /\ pc' = [pc EXCEPT ![w] = "unlock"]
    /\ UNCHANGED <<units, mailbox, finished, sup, unseen, answered, emails, reports, locks, batch, expiries, ncmecNext, fetchTicks, submitted, appended, smtpTried, smtpFailed, faults, ncmecUp>>

Builder(w) ==
    \/ BuildTick(w) \/ BuildLock(w) \/ BuildLockBusy(w)
    \/ BuildCheck(w) \/ BuildReports(w) \/ BuildFailed(w)

\* ------------------------------------------------------------------------
\* Reporter, loop 2: file the reports with the authority
\* ------------------------------------------------------------------------

ReportIndex(id) == CHOOSE i \in 1..Len(reports) : reports[i].id = id

FindReport(id) == reports[ReportIndex(id)]

FindUnfiledReports == SelectSeq(reports, LAMBDA r : ~r.filed /\ r.filed_err = "")

UpdateReportNoLock(id, fields) ==
    IF ~StoreOpen THEN reports
    ELSE [reports EXCEPT ![ReportIndex(id)] = [f \in DOMAIN @ |-> IF f \in DOMAIN fields THEN fields[f] ELSE @[f]]]

\* a tick that files whatever the status check was answered
FileTick_unchecked(w) ==
    /\ StageOf(w) = "filer"
    /\ pc[w] = "idle"
    /\ StartBatch(w, Snapshot("filer", FindUnfiledReports))
    /\ UNCHANGED <<units, mailbox, finished, sup, unseen, answered, emails, reports, locks, expiries, ncmecNext, fetchTicks, submitted, appended, smtpTried, smtpFailed, faults, ncmecUp>>

\* a tick whose status check was answered OK
FileTick(w) ==
    /\ StageOf(w) = "filer"
    /\ pc[w] = "idle"
    /\ ncmecUp
    /\ StartBatch(w, Snapshot("filer", FindUnfiledReports))
    /\ UNCHANGED <<units, mailbox, finished, sup, unseen, answered, emails, reports, locks, expiries, ncmecNext, fetchTicks, submitted, appended, smtpTried, smtpFailed, faults, ncmecUp>>

FileLock(w) ==
    /\ StageOf(w) = "filer"
    /\ pc[w] = "next"
    /\ Lock(w)
    /\ UNCHANGED <<units, mailbox, finished, sup, unseen, answered, emails, reports, expiries, ncmecNext, fetchTicks, submitted, appended, smtpTried, smtpFailed, faults, ncmecUp>>

FileLockBusy(w) ==
    /\ StageOf(w) = "filer"
    /\ pc[w] = "next"
    /\ LockBusy(w)
    /\ UNCHANGED <<units, mailbox, finished, sup, unseen, answered, emails, reports, expiries, ncmecNext, fetchTicks, submitted, appended, smtpTried, smtpFailed, faults, ncmecUp>>

\* under the lock: return when FindReport fails or another process filed
\* the report; finish
\* a report that has a report id, open any other
FileCheck(w) ==
    /\ StageOf(w) = "filer"
    /\ pc[w] = "locked"
    /\ LET report == Head(batch[w])
       IN pc' = [pc EXCEPT ![w] = IF ~StoreOpen \/ FindReport(report.id).filed THEN "unlock"
                                  ELSE IF report.report_id # 0 THEN "finish"
                                  ELSE "open"]
    /\ UNCHANGED <<units, mailbox, finished, sup, unseen, answered, emails, reports, locks, batch, expiries, ncmecNext, fetchTicks, submitted, appended, smtpTried, smtpFailed, faults, ncmecUp>>

\* openReport: /submit was accepted, the report id is stored
FileOpen(w) ==
    /\ StageOf(w) = "filer"
    /\ pc[w] = "open"
    /\ submitted' = Bump(submitted, Head(batch[w]).id)
    /\ reports' = UpdateReportNoLock(Head(batch[w]).id, [report_id |-> ncmecNext])
    /\ batch' = [batch EXCEPT ![w][1].report_id = ncmecNext]
    /\ ncmecNext' = ncmecNext + 1
    /\ pc' = [pc EXCEPT ![w] = "finish"]
    /\ UNCHANGED <<units, mailbox, finished, sup, unseen, answered, emails, locks, expiries, fetchTicks, appended, smtpTried, smtpFailed, faults, ncmecUp>>

\* openReport: /submit failed, the error is stored
FileOpenFailed(w) ==
    /\ StageOf(w) = "filer"
    /\ pc[w] = "open"
    /\ reports' = UpdateReportNoLock(Head(batch[w]).id, [filed_err |-> "open"])
    /\ pc' = [pc EXCEPT ![w] = "unlock"]
    /\ UNCHANGED <<units, mailbox, finished, sup, unseen, answered, emails, locks, batch, expiries, ncmecNext, fetchTicks, submitted, appended, smtpTried, smtpFailed, faults, ncmecUp>>

\* finishReport: /finish answered ok or not, the outcome is stored
FileFinish(w) ==
    /\ StageOf(w) = "filer"
    /\ pc[w] = "finish"
    /\ \E ok \in BOOLEAN :
         /\ reports' = UpdateReportNoLock(Head(batch[w]).id,
                           [filed |-> ok, filed_err |-> IF ok THEN "" ELSE "finish",
                            report_id |-> Head(batch[w]).report_id])
         /\ finished' = IF ok THEN finished \cup {Head(batch[w]).report_id} ELSE finished
    /\ pc' = [pc EXCEPT ![w] = "unlock"]
    /\ UNCHANGED <<units, mailbox, sup, unseen, answered, emails, locks, batch, expiries, ncmecNext, fetchTicks, submitted, appended, smtpTried, smtpFailed, faults, ncmecUp>>

Filer(w) ==
    \/ FileTick(w) \/ FileLock(w) \/ FileLockBusy(w)
    \/ FileCheck(w) \/ FileOpen(w) \/ FileOpenFailed(w) \/ FileFinish(w)

Next ==
    \/ \E w \in units :
         \/ Fetcher(w) \/ Parser(w) \/ Blocker(w) \/ Finalizer(w)
         \/ Builder(w) \/ Filer(w) \/ Release(w)
    \/ Expire

Spec == Init /\ [][Next]_vars

\* the fetchers alone, with their ticks counted
NextFetch == \E w \in units : CountedFetchTick(w) \/ FetchSkip(w) \/ FetchPersist(w)

SpecFetch == Init /\ [][NextFetch]_vars

\* ------------------------------------------------------------------------
\* The blockers alone, against every answer of the block service
\* ------------------------------------------------------------------------

SkylinkNames == {"A", "B", "C"}

\* the lists of skylinks a body spells out, repetitions included
LinkLists == UNION {[1..n -> SkylinkNames] : n \in 0..MaxLinks}

LinkBody(links) == [nil |-> FALSE, mime |-> TRUE, links |-> links, transfer |-> <<>>, tags |-> {}]

LinkMsg(links) == [from |-> <<"reporter@example.com">>, hasBody |-> TRUE, body |-> LinkBody(links)]

\* the record of a message after the fetcher inserted it and the parser
\* updated it
ParsedEmail(uid, body) ==
    LET report == buildAbuseReport(NewEmail(uid, body), TRUE)
    IN [NewEmail(uid, body) EXCEPT !.parsed = TRUE,
                                   !.parse_result = [skylinks |-> report.skylinks, tags |-> report.tags]]

\* what a block request can run into: no request built, no answer, or the
\* HTTP status of the answer
BlockAnswers == {BuildError, 0, 200, 204, 500}

\* one parsed email in the store, the blockers of two hosts
InitBlock ==
    /\ units = {"h1", "h2"} \X {"blocker"}
    /\ \E links \in LinkLists :
         /\ mailbox = <<LinkMsg(links)>>
         /\ emails = <<ParsedEmail(buildMessageUID(MailboxName, UidValidity, 1), LinkBody(links))>>
    /\ InitRun

NextBlock ==
    \E w \in units :
        \/ BlockTick(w) \/ BlockLock(w) \/ BlockLockBusy(w)
        \/ BlockEmailAnswering(w, BlockAnswers) \/ Release(w)

SpecBlock == InitBlock /\ [][NextBlock]_vars

\* ------------------------------------------------------------------------
\* Faults: crashes of a process, failed store updates, outages of the
\* authority
\* ------------------------------------------------------------------------

\* the process of the unit dies and is started again: it loses its
\* position and its batch, the lock record it created stays in the store
Restart(w) ==
    /\ faults < MaxFaults
    /\ faults' = faults + 1
    /\ pc' = [pc EXCEPT ![w] = "idle"]
    /\ batch' = [batch EXCEPT ![w] = <<>>]

\* a crash between two store operations of a handler
Crash(w) ==
    /\ StageOf(w) # "fetcher"
    /\ pc[w] \in {"locked", "work", "open", "finish", "unlock"}
    /\ Restart(w)
    /\ UNCHANGED <<units, mailbox, finished, sup, unseen, answered, emails, reports, locks, expiries, ncmecNext, fetchTicks,
                   submitted, appended, smtpTried, smtpFailed, ncmecUp>>

\* openReport: /submit was accepted, the process dies before the report id
\* is stored
CrashAfterSubmit(w) ==
    /\ StageOf(w) = "filer"
    /\ pc[w] = "open"
    /\ submitted' = Bump(submitted, Head(batch[w]).id)
    /\ ncmecNext' = ncmecNext + 1
    /\ Restart(w)
    /\ UNCHANGED <<units, mailbox, finished, sup, unseen, answered, emails, reports, locks, expiries, fetchTicks,
                   appended, smtpTried, smtpFailed, ncmecUp>>

\* finalizeEmail: the replies were sent, the process dies before the email
\* is updated
CrashAfterAppend(w) ==
    /\ StageOf(w) = "finalizer"
    /\ pc[w] = "work"
    /\ SendReplies(w)
    /\ Restart(w)
    /\ UNCHANGED <<units, mailbox, finished, sup, unseen, answered, emails, reports, locks, expiries, ncmecNext, fetchTicks,
                   submitted, ncmecUp>>

\* finalizeEmail: the replies were sent, UpdateNoLock returns an error:
\* "could not update email"
FinalizeUpdateFailed(w) ==
    /\ StageOf(w) = "finalizer"
    /\ pc[w] = "work"
    /\ faults < MaxFaults
    /\ faults' = faults + 1
    /\ SendReplies(w)
    /\ pc' = [pc EXCEPT ![w] = "unlock"]
    /\ UNCHANGED <<units, mailbox, finished, sup, unseen, answered, emails, reports, locks, batch, expiries, ncmecNext, fetchTicks,
                   submitted, ncmecUp>>

\* buildReportsForEmail: the reports were inserted, UpdateNoLock returns an
\* error: "could not update email"
BuildUpdateFailed(w) ==
    /\ StageOf(w) = "builder"
    /\ pc[w] = "work"
    /\ faults < MaxFaults
    /\ faults' = faults + 1
    /\ InsertReports(w, GroupedUsers(Head(batch[w]).parse_result.skylinks))
    /\ pc' = [pc EXCEPT ![w] = "unlock"]
    /\ UNCHANGED <<units, mailbox, finished, sup, unseen, answered, emails, locks, batch, expiries, ncmecNext, fetchTicks,
                   submitted, appended, smtpTried, smtpFailed, ncmecUp>>

\* buildReportsForEmail: the reports were inserted, the process dies before
\* the email is updated
CrashAfterInsert(w) ==
    /\ StageOf(w) = "builder"
    /\ pc[w] = "work"
    /\ InsertReports(w, GroupedUsers(Head(batch[w]).parse_result.skylinks))
    /\ Restart(w)
    /\ UNCHANGED <<units, mailbox, finished, sup, unseen, answered, emails, locks, expiries, ncmecNext, fetchTicks,
                   submitted, appended, smtpTried, smtpFailed, ncmecUp>>

\* buildReportsForEmail: xml.Marshal or InsertReport fails for the reports
\* of the users in failed; the error is logged, the loop continues and the
\* email is updated
BuildInsertFailed(w) ==
    /\ StageOf(w) = "builder"
    /\ pc[w] = "work"
    /\ faults < MaxFaults
    /\ faults' = faults + 1
    /\ LET users == GroupedUsers(Head(batch[w]).parse_result.skylinks)
       IN \E failed \in (SUBSET users) \ {{}} : InsertReports(w, users \ failed)
    /\ emails' = UpdateNoLock(Head(batch[w]).uid, [reported |-> TRUE])
    /\ pc' = [pc EXCEPT ![w] = "unlock"]
    /\ UNCHANGED <<units, mailbox, finished, sup, unseen, answered, locks, batch, expiries, ncmecNext, fetchTicks,
                   submitted, appended, smtpTried, smtpFailed, ncmecUp>>

\* the authority stops answering its status check with OK
AuthorityDown ==
    /\ ncmecUp
    /\ faults < MaxFaults
    /\ faults' = faults + 1
    /\ ncmecUp' = FALSE
    /\ UNCHANGED <<units, mailbox, finished, sup, unseen, answered, emails, reports, locks, pc, batch, expiries, ncmecNext, fetchTicks,
                   submitted, appended, smtpTried, smtpFailed>>

\* the authority answers its status check with OK again
AuthorityUp ==
    /\ ~ncmecUp
    /\ ncmecUp' = TRUE
    /\ UNCHANGED <<units, mailbox, finished, sup, unseen, answered, emails, reports, locks, pc, batch, expiries, ncmecNext, fetchTicks,
                   submitted, appended, smtpTried, smtpFailed, faults>>

\* threadedFileReports: the status check failed or was not OK, the tick
\* returns before fileReports
FileTickSkipped(w) ==
    /\ StageOf(w) = "filer"
    /\ pc[w] = "idle"
    /\ ~ncmecUp
    /\ UNCHANGED vars

\* one host with the whole pipeline, and a mailbox with a csam message
InitFaults ==
    /\ units = {"h1"} \X Stages
    /\ mailbox = <<CsamMsg, ScannerMsg>>
    /\ InitStore

NextFaults ==
    \/ Next
    \/ \E w \in units :
         \/ Crash(w) \/ CrashAfterSubmit(w) \/ CrashAfterAppend(w)
         \/ FinalizeUpdateFailed(w) \/ FileTickSkipped(w)
         \/ BuildUpdateFailed(w) \/ CrashAfterInsert(w) \/ BuildInsertFailed(w)
    \/ AuthorityDown
    \/ AuthorityUp

SpecFaults == InitFaults /\ [][NextFaults]_vars

\* ------------------------------------------------------------------------
\* The parsers of two hosts, against a message that cannot be parsed
\* ------------------------------------------------------------------------

\* a body message.Read returns an error for
MalformedBody == [nil |-> FALSE, mime |-> FALSE, links |-> <<"A">>, transfer |-> <<>>, tags |-> {}]

MalformedMsg == [from |-> <<"reporter@example.com">>, hasBody |-> TRUE, body |-> MalformedBody]

InitParse ==
    /\ units = {<<"h1", "fetcher">>, <<"h1", "parser">>, <<"h2", "parser">>}
    /\ mailbox = <<MalformedMsg, TransferMsg, ScannerMsg>>
    /\ InitStore

NextParse ==
    \/ \E w \in units : Fetcher(w) \/ Parser(w) \/ Release(w)
    \/ Expire

SpecParse == InitParse /\ [][NextParse]_vars

\* ------------------------------------------------------------------------
\* Shutdown: the supervisor cancels the context and stops the components
\* ------------------------------------------------------------------------

\* the stages whose loop selects on the context of main; the two loops of
\* the reporter select on the reporter's own stop channel
ContextStages == {"fetcher", "parser", "blocker", "finalizer"}

\* main received an exit signal and called cancel()
Cancel ==
    /\ sup = "running"
    /\ sup' = "cancelled"
    /\ UNCHANGED <<units, mailbox, finished, unseen, answered, emails, reports, locks, pc, batch, expiries, ncmecNext, fetchTicks, submitted, appended, smtpTried, smtpFailed, faults, ncmecUp>>

\* main went on to abuseDB.Close(), before the Stop of any component: the
\* client of the store is disconnected
CloseStore ==
    /\ sup = "cancelled"
    /\ sup' = "closed"
    /\ UNCHANGED <<units, mailbox, finished, unseen, answered, emails, reports, locks, pc, batch, expiries, ncmecNext, fetchTicks, submitted, appended, smtpTried, smtpFailed, faults, ncmecUp>>

\* the stop signal is raised and main has not ended
Stopping == sup \in {"cancelled", "closed"}

\* the select after an iteration of a threaded loop finds the context done:
\* the loop returns
Return(w) ==
    /\ StageOf(w) \in ContextStages
    /\ Stopping
    /\ pc[w] = "idle"
    /\ pc' = [pc EXCEPT ![w] = "done"]
    /\ UNCHANGED <<units, mailbox, finished, sup, unseen, answered, emails, reports, locks, batch, expiries, ncmecNext, fetchTicks, submitted, appended, smtpTried, smtpFailed, faults, ncmecUp>>

\* a step of a unit while the process runs: the loops start an iteration
\* only as long as their stop signal is not raised; the stop channel of the
\* reporter is closed by Reporter.Stop only, which main does not call (its
\* variable reporter stays nil: the reporter it starts is assigned to a
\* variable declared inside the if block)
Step(w) ==
    /\ sup = "running" \/ Stopping
    /\ Stopping /\ StageOf(w) \in ContextStages => pc[w] # "idle"
    /\ \/ Fetcher(w) \/ Parser(w) \/ Blocker(w) \/ Finalizer(w)
       \/ Builder(w) \/ Filer(w) \/ Release(w)

Joined == \A w \in units : StageOf(w) \in ContextStages => pc[w] = "done"

\* the Stop of every component main calls found the wait group done: main
\* logs "Abuse Scanner Terminated." and the process ends
Terminate ==
    /\ sup = "closed"
    /\ Joined
    /\ sup' = "terminated"
    /\ UNCHANGED <<units, mailbox, finished, unseen, answered, emails, reports, locks, pc, batch, expiries, ncmecNext, fetchTicks, submitted, appended, smtpTried, smtpFailed, faults, ncmecUp>>

\* a Stop timed out after a minute ("unclean shutdown"): log.Fatal ends
\* the process
TerminateUnclean ==
    /\ sup = "closed"
    /\ ~Joined
    /\ sup' = "failed"
    /\ UNCHANGED <<units, mailbox, finished, unseen, answered, emails, reports, locks, pc, batch, expiries, ncmecNext, fetchTicks, submitted, appended, smtpTried, smtpFailed, faults, ncmecUp>>

\* one host with reporting enabled, a csam message and a message to skip
InitStop ==
    /\ units = {"h1"} \X Stages
    /\ mailbox = <<CsamMsg, ScannerMsg>>
    /\ InitStore

NextStop ==
    \/ \E w \in units : Step(w) \/ Return(w)
    \/ Cancel
    \/ CloseStore
    \/ Terminate
    \/ TerminateUnclean

SpecStop == InitStop /\ [][NextStop]_vars

\* ------------------------------------------------------------------------
\* The pipeline of one host on a mailbox with two messages to handle
\* ------------------------------------------------------------------------

InitPipeline ==
    /\ units = {"h1"} \X Stages
    /\ mailbox = <<CsamMsg, TransferMsg, ScannerMsg>>
    /\ InitStore

NextPipeline ==
    \E w \in units :
        \/ Fetcher(w) \/ Parser(w) \/ Blocker(w) \/ Finalizer(w)
        \/ Builder(w) \/ Filer(w) \/ Release(w)

SpecPipeline == InitPipeline /\ [][NextPipeline]_vars

\* ------------------------------------------------------------------------
\* A crash of a parser that holds a lock, with the ticks scheduled fairly
\* ------------------------------------------------------------------------

InitCrash ==
    /\ units = {<<"h1", "fetcher">>, <<"h1", "parser">>, <<"h2", "parser">>}
    /\ mailbox = <<TransferMsg, ScannerMsg>>
    /\ InitStore

\* the steps of a unit that its ticker and its loop make happen
UnitStep(w) == w \in units /\ (Fetcher(w) \/ Parser(w) \/ Release(w))

NextCrash ==
    \/ \E w \in units : UnitStep(w) \/ Crash(w)
    \/ Expire

\* every unit keeps ticking and working.  Crash and Expire are left to
\* chance: abuseLock.Lock hands the TTL to the lock library, and no code of
\* the program removes a lock record whose TTL ran out (it creates no TTL
\* index on the lock collection and never runs a purge of expired locks)
SpecCrash == InitCrash /\ [][NextCrash]_vars /\ \A w \in Workers : WF_vars(UnitStep(w))

\* ------------------------------------------------------------------------
\* The pipeline of one host with its tickers, its lock acquisitions and the
\* outside services scheduled fairly
\* ------------------------------------------------------------------------

InitLive ==
    /\ units = {"h1"} \X Stages
    /\ mailbox = <<CsamMsg, ScannerMsg>>
    /\ InitStore

\* any step of the unit: its ticker fires, its loop goes on
Runs(w) ==
    /\ w \in units
    /\ \/ Fetcher(w) \/ Parser(w) \/ Blocker(w) \/ Finalizer(w)
       \/ Builder(w) \/ Filer(w) \/ Release(w)

\* a step of the unit in which an acquire of the lock succeeds
Acquires(w) ==
    /\ w \in units
    /\ \/ ParseLock(w) \/ BlockLock(w) \/ FinalizeLock(w) \/ BuildLock(w) \/ FileLock(w)
       \/ (CanLock /\ (FetchSkip(w) \/ FetchPersist(w)))

\* a step of the unit in which the IMAP server or the uploader-info service
\* does what it is asked
Served(w) == w \in units /\ (FinalizeEmail(w) \/ BuildReports(w))

SpecLive ==
    /\ InitLive
    /\ [][NextPipeline]_vars
    /\ \A w \in {"h1"} \X Stages : WF_vars(Runs(w))
    /\ \A w \in {"h1"} \X {"blocker", "finalizer", "builder"} : SF_vars(Acquires(w))
    /\ \A w \in {"h1"} \X {"finalizer", "builder"} : SF_vars(Served(w))

\* ------------------------------------------------------------------------
\* Properties
\* ------------------------------------------------------------------------

\* the unit is between a successful abuseLock.Lock and its deferred Unlock
InSection(w) ==
    /\ StageOf(w) # "fetcher"
    /\ pc[w] \in {"locked", "work", "open", "finish", "unlock"}

FinalizedImpliesParsedBlocked ==
    \A i \in 1..Len(emails) : emails[i].finalized => (emails[i].parsed /\ emails[i].blocked)

\* the finalizer finalized an email the fetcher persisted for the pipeline
FinalizedByFinalizer ==
    \E i \in 1..Len(emails) : ~emails[i].skip /\ emails[i].finalized

\* C3: no email record whose tags hold csam is finalized while it is not
\* reported
CsamFinalizedImpliesReported ==
    \A i \in 1..Len(emails) :
        (emails[i].finalized /\ "csam" \in emails[i].parse_result.tags) => emails[i].reported

WritesEmail(w) ==
    \/ ParseEmail(w) /\ Head(batch[w]).body.mime
    \/ BlockEmail(w)
    \/ FinalizeEmail(w)
    \/ BuildReports(w)

\* C5: no stage, a worker with a stale snapshot included, writes to an email
\* record that is finalized
FinalizedIsTerminal ==
    [][\A w \in Workers : WritesEmail(w) => ~FindOne(Head(batch[w]).uid).finalized]_vars

\* C6: the block result of an email record is empty or has one entry per
\* skylink of its parse result
BlockResultLength ==
    \A i \in 1..Len(emails) :
        \/ emails[i].block_result = <<>>
        \/ Len(emails[i].block_result) = Len(emails[i].parse_result.skylinks)

\* C7: a flag of an email record that is set is never reset, whichever
\* workers write to the record
FlagsMonotone ==
    [][\A i \in 1..Len(emails) :
          /\ Len(emails') >= Len(emails)
          /\ emails[i].parsed => emails'[i].parsed
          /\ emails[i].blocked => emails'[i].blocked
          /\ emails[i].finalized => emails'[i].finalized
          /\ emails[i].reported => emails'[i].reported]_vars

\* a parser holds the lock of a record that was blocked since the parser
\* selected it, and is about to update it
StaleWriterOnSetFlags ==
    \E w \in units :
        /\ StageOf(w) = "parser"
        /\ pc[w] = "locked"
        /\ FindOne(Head(batch[w]).uid).parsed
        /\ FindOne(Head(batch[w]).uid).blocked

\* every message of the mailbox has an email record
AllPersisted ==
    \A m \in 1..Len(mailbox) : HasEmail(buildMessageUID(MailboxName, UidValidity, m))

\* C8: once every message of the mailbox has a record, a step of a fetcher
\* adds no record and changes no record
FetchIdempotent ==
    [][AllPersisted => emails' = emails]_vars

\* a fetcher ran a second tick after its first tick persisted every message
SecondTickRan ==
    \E w \in units :
        /\ StageOf(w) = "fetcher"
        /\ fetchTicks[w] >= 2
        /\ pc[w] = "idle"
        /\ \A v \in units \ {w} : fetchTicks[v] = 0
        /\ AllPersisted

\* the message is one the fetcher persists as skipped
IsSkipMessage(msg) == isFromAbuseScanner(msg) \/ ~hasBody(msg)

\* C9: the record of a message from the scanner's own address, or without a
\* body, has skip, parsed, blocked and finalized set, is in no batch the
\* parser, blocker, reporter or finalizer selected, and has no report
SkipMessagesUntouched ==
    \A m \in 1..Len(mailbox) :
        LET uid == buildMessageUID(MailboxName, UidValidity, m)
        IN (IsSkipMessage(mailbox[m]) /\ HasEmail(uid)) =>
             /\ \A i \in 1..Len(emails) :
                  emails[i].uid = uid =>
                     /\ emails[i].skip /\ emails[i].parsed
                     /\ emails[i].blocked /\ emails[i].finalized
                     /\ ~emails[i].reported
                     /\ emails[i].parse_result.skylinks = <<>>
                     /\ emails[i].block_result = <<>>
             /\ \A w \in Workers :
                  StageOf(w) \in {"parser", "blocker", "finalizer", "builder"} =>
                     \A j \in 1..Len(batch[w]) : batch[w][j].uid # uid
             /\ \A r \in 1..Len(reports) : reports[r].email_id # uid

\* a skip record is stored and the pipeline finalized the other email
SkipStoredPipelineRan ==
    /\ \E i \in 1..Len(emails) : emails[i].skip
    /\ \E i \in 1..Len(emails) : ~emails[i].skip /\ emails[i].finalized

\* the step is an update of the report at the head of the filer's batch
WritesReport(w) == FileOpen(w) \/ FileOpenFailed(w) \/ FileFinish(w)

IssuesRequest(w) == FileOpen(w) \/ FileOpenFailed(w) \/ FileFinish(w)

\* C11: no /submit and no /finish request is issued for a report record
\* whose stored filed_err is not empty
ErroredIsNotRetried ==
    [][\A w \in Workers : IssuesRequest(w) => FindReport(Head(batch[w]).id).filed_err = ""]_vars

\* C12: the authority accepts at most one /submit per report record, also
\* when the filer crashes between the accepted /submit and the end of
\* /finish and the report is taken up again after the restart
SubmittedOnce ==
    \A id \in DOMAIN submitted : submitted[id] <= 1

\* C13: while the authority does not answer its status check with OK, a
\* filer that is idle starts no work, and with every filer idle no
\* /submit is accepted and no report record is changed
NoFilingWhileDown ==
    [][~ncmecUp =>
         /\ \A w \in units :
              (StageOf(w) = "filer" /\ pc[w] = "idle") => (pc'[w] = "idle" /\ batch'[w] = <<>>)
         /\ (\A w \in units : StageOf(w) = "filer" => pc[w] = "idle") =>
              /\ submitted' = submitted
              /\ \A i \in 1..Len(reports) : reports'[i] = reports[i]]_vars

\* the authority is down while a report waits to be filed and the filer is
\* between two ticks
DownWithUnfiled ==
    /\ ~ncmecUp
    /\ FindUnfiledReports # <<>>
    /\ \A w \in units : StageOf(w) = "filer" => pc[w] = "idle"

\* the report records of an email
ReportsOf(uid) == {r \in 1..Len(reports) : reports[r].email_id = uid}

HoldsLock(w) ==
    \E l \in locks : l.lockId = LockIdOf(w) /\ l.host = HostOf(w)

ResourceOf(w) == IF StageOf(w) = "filer" THEN "ncmec_reports" ELSE "emails"

\* the step is an acquire of the unit that failed as busy
AcquireFailed(w) ==
    \/ ParseLockBusy(w) \/ BlockLockBusy(w) \/ FinalizeLockBusy(w)
    \/ BuildLockBusy(w) \/ FileLockBusy(w)

\* C16: an acquire fails as busy only when the store has a lock record for
\* the same resource and the same id
LockKeyedByPair ==
    [][\A w \in Workers :
          AcquireFailed(w) =>
              \E l \in locks : l.resource = ResourceOf(w) /\ l.lockId = LockIdOf(w)]_vars

\* C17: the summary reply of an email is appended to the mailbox at most
\* once, also when the finalizer crashes or its store update fails after
\* the append and the email is taken up again on a later tick
AppendedOnce ==
    \A uid \in DOMAIN appended : appended[uid] <= 1

\* the outcome the store holds for an email is fully successful: at least
\* one skylink, and every entry of the block result is "BLOCKED"
FullySuccessful(uid) ==
    LET email == FindOne(uid)
    IN /\ Len(email.parse_result.skylinks) >= 1
       /\ \A i \in 1..Len(email.block_result) : email.block_result[i] = "BLOCKED"

\* C18: the finalizer sends the automated reply for an email exactly when
\* the email has at least one skylink and every entry of its block result
\* is "BLOCKED"
AutoReplyIffSuccess ==
    [][\A w \in Workers :
          FinalizeEmail(w) =>
              LET uid == Head(batch[w]).uid
              IN (Count(smtpTried', uid) > Count(smtpTried, uid)) <=> FullySuccessful(uid)]_vars

BlockedIffAnswered ==
    \A e \in 1..Len(emails) :
        emails[e].blocked =>
            /\ emails[e].uid \in DOMAIN answered
            /\ LET skylinks == emails[e].parse_result.skylinks
                   answers == answered[emails[e].uid]
               IN /\ Len(emails[e].block_result) = Len(skylinks)
                  /\ Len(answers) = Len(skylinks)
                  /\ \A i \in 1..Len(skylinks) :
                        /\ answers[i].skylink = skylinks[i]
                        /\ emails[e].block_result[i] = "BLOCKED" <=> answers[i].status \in {200, 204}

\* a blocked email with two skylinks, one answered with 204 and one whose
\* request could not be executed
BlockedMixedAnswers ==
    \E e \in 1..Len(emails) :
        /\ emails[e].blocked
        /\ emails[e].block_result = <<"BLOCKED", "failed to execute request">>
        /\ emails[e].uid \in DOMAIN answered
        /\ answered[emails[e].uid][1].status = 204
        /\ answered[emails[e].uid][2].status = 0

\* the unit is done with a record of its batch
CompletesRecord(w) == pc[w] \notin {"idle", "done"} /\ batch'[w] = Tail(batch[w])

\* C21: once the stop signal is raised a unit completes at most the record
\* it is working on: after that record it takes up no further record of
\* its batch, and it starts no new iteration
StopsAfterCurrentRecord ==
    [][Stopping =>
          \A w \in units :
              /\ CompletesRecord(w) => pc'[w] # "next"
              /\ pc[w] = "idle" => pc'[w] \in {"idle", "done"}]_vars

\* C22: when the supervisor has finished shutting down, the two units of
\* the reporter have returned like the units of every other component
ReporterJoined ==
    sup = "terminated" => \A w \in units : pc[w] = "done"

\* C23: a blocker that takes the lock of an email another blocker has
\* blocked already sends no request to the block service and leaves the
\* record as it is
BlockerLaterWinnerNoOps ==
    [][\A w \in Workers :
          (BlockEmail(w) /\ FindOne(Head(batch[w]).uid).blocked) =>
              /\ answered' = answered
              /\ emails' = emails]_vars

\* C24: a parser that takes the lock of an email another parser has parsed
\* already leaves the parse result of the record as it is
ParserDoubleCheck ==
    [][\A w \in Workers :
          (ParseEmail(w) /\ FindOne(Head(batch[w]).uid).parsed) =>
              FindOne(Head(batch[w]).uid)'.parse_result = FindOne(Head(batch[w]).uid).parse_result]_vars

OpenFailureIsRecorded ==
    [][\A w \in Workers :
          FileOpenFailed(w) =>
              /\ pc'[w] = "unlock"
              /\ FindReport(Head(batch[w]).id)'.filed_err # ""
              /\ ~FindReport(Head(batch[w]).id)'.filed
              /\ FindReport(Head(batch[w]).id)'.report_id = 0]_vars

UnseenOnlyWhenPersisted ==
    [][\A w \in Workers :
          /\ (FetchPersist(w) /\ emails' = emails) => <<w, Head(batch[w])>> \notin unseen'
          /\ FetchSkip(w) => unseen' = unseen]_vars

\* the body of the email is one the parser fails on
Unparsable(email) == email.body.nil \/ ~email.body.mime

\* C30: when parsing an email fails the parser leaves the record as it is
\* (parsed stays false, the parse result is unchanged), goes on to release
\* the lock, and the email is still among the emails the next parse tick
\* selects
ParseFailureWritesNothing ==
    [][\A w \in Workers :
          /\ (ParseEmail(w) /\ Unparsable(Head(batch[w]))) =>
                /\ emails' = emails
                /\ ~FindOne(Head(batch[w]).uid).parsed
                /\ pc'[w] = "unlock"
                /\ \E i \in 1..Len(FindUnparsed') : FindUnparsed'[i].uid = Head(batch[w]).uid
          /\ (StageOf(w) = "parser" /\ Release(w)) =>
                ~\E l \in locks' : l.lockId = LockIdOf(w) /\ l.host = HostOf(w)
          /\ ParseTick(w) =>
                \A i \in 1..Len(emails) :
                    Unparsable(emails[i]) /\ ~emails[i].skip =>
                        \E j \in 1..Len(batch'[w]) : batch'[w][j].uid = emails[i].uid]_vars

\* a parser has failed on the email it holds and left it unparsed, and the
\* parser of the other host has selected the same email and is about to
\* take it up
ParseFailedAndRetried ==
    \E w \in units, v \in units :
        /\ w # v
        /\ StageOf(w) = "parser" /\ StageOf(v) = "parser"
        /\ pc[w] = "unlock"
        /\ Unparsable(Head(batch[w]))
        /\ ~FindOne(Head(batch[w]).uid).parsed
        /\ pc[v] = "next"
        /\ Head(batch[v]).uid = Head(batch[w]).uid

\* the documents the tick of a stage selects
Selected(stage) ==
    CASE stage = "parser" -> FindUnparsed
      [] stage = "blocker" -> FindUnblocked
      [] stage = "finalizer" -> FindUnfinalized(MailboxName)
      [] stage = "builder" -> FindUnreported
      [] stage = "filer" -> FindUnfiledReports

KeyOf(stage, doc) == IF stage = "filer" THEN doc.id ELSE doc.uid

\* the store has the document among those a tick of the stage selects
Eligible(stage, key) ==
    \E i \in 1..Len(Selected(stage)) : KeyOf(stage, Selected(stage)[i]) = key

\* the unit takes a step from a record whose lock it cannot acquire
StepsOnBusy(w) ==
    /\ StageOf(w) # "fetcher"
    /\ pc[w] = "next"
    /\ ~CanLock
    /\ pc'[w] # pc[w] \/ batch'[w] # batch[w]

\* C31: a unit that cannot acquire the lock of a record writes nothing to
\* the store and calls no outside service for it, goes on with the next
\* record of its batch without coming back to the skipped one in this tick,
\* and the record is selected by a later tick as it was before
LockBusyIsSkip ==
    [][\A w \in Workers :
          StepsOnBusy(w) =>
              /\ emails' = emails /\ reports' = reports /\ locks' = locks
              /\ answered' = answered /\ submitted' = submitted /\ finished' = finished
              /\ ncmecNext' = ncmecNext /\ appended' = appended
              /\ smtpTried' = smtpTried /\ smtpFailed' = smtpFailed
              /\ batch'[w] = Tail(batch[w])
              /\ pc'[w] = IF Tail(batch[w]) = <<>> THEN "idle" ELSE "next"
              /\ \A i \in 1..Len(batch'[w]) :
                    KeyOf(StageOf(w), batch'[w][i]) # KeyOf(StageOf(w), Head(batch[w]))
              /\ \A key \in {LockIdOf(w)} :
                    Eligible(StageOf(w), key) => Eligible(StageOf(w), key)']_vars

\* the blocker is at the second email of the store while the first one is
\* parsed and not blocked.  On one host the first email is parsed before
\* the second one, so the tick that selected the second selected the first
\* too, and blockEmail marks every email it works on: the blocker could not
\* acquire the lock of the first email and went on
BlockerSkippedBusy ==
    \E w \in units :
        /\ StageOf(w) = "blocker"
        /\ pc[w] = "next"
        /\ Len(emails) >= 2
        /\ Len(batch[w]) = 1
        /\ Head(batch[w]).uid = emails[2].uid
        /\ Eligible("blocker", emails[1].uid)

Orphaned ==
    \E l \in locks :
        ~\E w \in units : InSection(w) /\ LockIdOf(w) = l.lockId /\ HostOf(w) = l.host

\* C33: a lock record left behind by a crashed holder does not stay: it
\* goes away, and the records of the store are then processed
OrphanedLockGoesAway ==
    Orphaned ~> (~Orphaned /\ \A i \in 1..Len(emails) : emails[i].parsed)

\* the answer of the block service is not one blockReport takes for blocked
FailedAnswer(status) == status \notin {200, 204}

\* C34: a block request that fails is recorded as the outcome of its
\* skylink and the email is marked blocked all the same; a blocked email
\* stays blocked, and no tick of a blocker selects a blocked email, so no
\* later tick sends its skylinks to the block service again
FailedBlockIsFinal ==
    [][\A w \in Workers :
          /\ BlockEmailAnswering(w, BlockAnswers) =>
                \A uid \in {Head(batch[w]).uid} :
                    /\ FindOne(uid)'.blocked
                    /\ Len(FindOne(uid)'.block_result) = Len(answered'[uid])
                    /\ \A i \in 1..Len(answered'[uid]) :
                          FailedAnswer(answered'[uid][i].status) =>
                              /\ FindOne(uid)'.block_result[i] = BlockOutcome(answered'[uid][i].status)
                              /\ FindOne(uid)'.block_result[i] # AbuseStatusBlocked
          /\ BlockTick(w) =>
                \A i \in 1..Len(batch'[w]) : ~FindOne(batch'[w][i].uid).blocked
          /\ \A i \in 1..Len(emails) : emails[i].blocked => emails'[i].blocked]_vars

\* the email is marked blocked although a request was not answered, and
\* the blockers are idle with nothing left to handle
BlockedWithFailure ==
    \E e \in 1..Len(emails) :
        /\ emails[e].blocked
        /\ \E i \in 1..Len(emails[e].block_result) :
              /\ emails[e].block_result[i] = "failed to execute request"
              /\ answered[emails[e].uid][i].status = 0
        /\ \A w \in units : pc[w] = "idle" /\ batch[w] = <<>>
        /\ FindUnblocked = <<>>

UsesStore(w) ==
    \/ FetchSkip(w) \/ FetchPersist(w)
    \/ AcquireFailed(w) \/ Release(w)
    \/ ParseEmail(w) \/ BlockEmail(w)
    \/ FinalizeCheck(w) \/ FinalizeEmail(w)
    \/ BuildCheck(w) \/ BuildReports(w)
    \/ FileCheck(w) \/ FileOpen(w) \/ FileOpenFailed(w) \/ FileFinish(w)

\* C36: once the supervisor has closed the connection to the store, no
\* unit makes a call on the store any more: the units have returned before
StoreClosedLast ==
    [][~StoreOpen => \A w \in units : ~UsesStore(w)]_vars

\* C37: the store never holds more than one report record for an email
\* and a user, also when the build unit inserted the records and then
\* failed to store reported=true, so that the email is selected again
OneReportPerGroup ==
    \A r1, r2 \in 1..Len(reports) :
        (reports[r1].email_id = reports[r2].email_id /\ reports[r1].user = reports[r2].user) => r1 = r2

\* C38: an email that is marked reported has a report record for every
\* user its skylinks are grouped by, also when the insert of a report failed
ReportedHasEveryReport ==
    \A e \in 1..Len(emails) :
        emails[e].reported =>
            \A user \in GroupedUsers(emails[e].parse_result.skylinks) :
                \E r \in ReportsOf(emails[e].uid) : reports[r].user = user

\* C40: the collection emails never holds two records with the same uid,
\* also when the fetchers of two hosts find the same message missing and
\* both go on to persist it
UniqueEmailUid ==
    \A i, j \in 1..Len(emails) : emails[i].uid = emails[j].uid => i = j

\* the fetchers of both hosts have run persistMessage for the first message
\* of the mailbox, and the store has a record of it
BothFetchersPersisted ==
    \E w, v \in units :
        /\ HostOf(w) # HostOf(v)
        /\ <<w, 1>> \in unseen
        /\ <<v, 1>> \in unseen
        /\ HasEmail(buildMessageUID(MailboxName, UidValidity, 1))

\* the record of the first message of the mailbox
FirstUid == buildMessageUID(MailboxName, UidValidity, 1)

\* the first message is stored, for the pipeline to handle
Admitted == HasEmail(FirstUid) /\ ~FindOne(FirstUid).skip

\* the record went through the stages in their order
Completed ==
    /\ HasEmail(FirstUid)
    /\ FindOne(FirstUid).finalized
    /\ FindOne(FirstUid).parsed
    /\ FindOne(FirstUid).blocked
    /\ "csam" \in FindOne(FirstUid).parse_result.tags => FindOne(FirstUid).reported

\* C39: with ticks, lock acquisitions and services scheduled fairly and no
\* crash, an admitted email is finalized in the end, and whenever it is
\* finalized it is parsed and blocked and, when tagged csam, reported
PipelineCompletes ==
    /\ Admitted ~> Completed
    /\ [](HasEmail(FirstUid) /\ FindOne(FirstUid).finalized => Completed)

\* the liveness half of it: an admitted email is finalized in the end
EventuallyFinalized ==
    Admitted ~> (HasEmail(FirstUid) /\ FindOne(FirstUid).finalized)

\* and a csam email is reported in the end
EventuallyReported ==
    Admitted ~> (HasEmail(FirstUid) /\ FindOne(FirstUid).reported)

====
